---------------------------- MODULE Spec2Model ----------------------------
(***************************************************************************)
(* Model of dev/make_requirements.py: the resolver invoker                 *)
(* (run_uv_commands), the requirements parser (parse_requirements), the    *)
(* writer (write_requirements), the deduplication pass                     *)
(* (deduplicate_requirements) and main.                                    *)
(*                                                                         *)
(* File content is a sequence of tokens.  A token is one significant       *)
(* character (space, tab, newline, '#') or an opaque run of text that      *)
(* neither starts nor ends with whitespace and does not start with '#'.    *)
(* Concatenation of text is concatenation of token sequences, and two      *)
(* contents are byte-identical iff their token sequences are equal.        *)
(***************************************************************************)
EXTENDS Integers, Sequences, FiniteSets, TLC

(***************************************************************************)
(* Bounds of the model.                                                    *)
(***************************************************************************)
\* most lines the resolver writes to base.txt, production.txt,
\* development.txt and testing.txt
MaxBaseLines == 1
MaxProductionLines == 1
MaxDevelopmentLines == 2
MaxTestingLines == 1
\* most lines in the file handed to the parser (parser specification)
MaxParseLines == 4
\* most calls of deduplicate_requirements on the same directory
MaxRuns == 2

(***************************************************************************)
(* Characters and lines.                                                   *)
(***************************************************************************)
SP == " "
TAB == "\t"
NL == "\n"
HASH == "#"

\* str.strip() and str.startswith() of lines 84 and 89
IsSpace(t) == t \in {SP, TAB, NL}

RECURSIVE LStrip(_)
LStrip(line) ==
    IF line # <<>> /\ IsSpace(Head(line)) THEN LStrip(Tail(line)) ELSE line

RECURSIVE RStrip(_)
RStrip(line) ==
    IF line # <<>> /\ IsSpace(line[Len(line)])
    THEN RStrip(SubSeq(line, 1, Len(line) - 1))
    ELSE line

Strip(line) == RStrip(LStrip(line))

StartsWith(line, t) == line # <<>> /\ Head(line) = t

\* "for line in f": the content cut after every newline; the last line
\* may lack its newline.
RECURSIVE SplitFrom(_, _, _)
SplitFrom(content, cur, acc) ==
    IF content = <<>>
    THEN (IF cur = <<>> THEN acc ELSE Append(acc, cur))
    ELSE IF Head(content) = NL
         THEN SplitFrom(Tail(content), <<>>, Append(acc, Append(cur, NL)))
         ELSE SplitFrom(Tail(content), Append(cur, Head(content)), acc)

SplitLines(content) == SplitFrom(content, <<>>, <<>>)

\* "".join(lines)
RECURSIVE Join(_)
Join(lines) == IF lines = <<>> THEN <<>> ELSE Head(lines) \o Join(Tail(lines))

(***************************************************************************)
(* The mapping of parse_requirements: an insertion-ordered dict, modelled  *)
(* as a sequence of [key, lines] records with distinct keys.               *)
(***************************************************************************)
NoPackage == <<>>

Keys(packages) == {packages[i].key : i \in DOMAIN packages}

KeySeq(packages) == [i \in DOMAIN packages |-> packages[i].key]

HasKey(packages, k) == \E i \in DOMAIN packages : packages[i].key = k

Block(packages, k) ==
    (CHOOSE e \in {packages[i] : i \in DOMAIN packages} : e.key = k).lines

\* Mutant of AppendTo: an identifier line met again restarts its block
\* (packages[key] = [line]) instead of extending it.
AppendTo_Overwrite(packages, k, line) ==
    IF HasKey(packages, k)
    THEN [i \in DOMAIN packages |->
            IF packages[i].key = k
            THEN [key |-> k,
                  lines |-> IF line = k THEN <<line>>
                            ELSE Append(packages[i].lines, line)]
            ELSE packages[i]]
    ELSE Append(packages, [key |-> k, lines |-> <<line>>])

\* packages[key].append(line) on a defaultdict(list)
AppendTo(packages, k, line) ==
    IF HasKey(packages, k)
    THEN [i \in DOMAIN packages |->
            IF packages[i].key = k
            THEN [key |-> k, lines |-> Append(packages[i].lines, line)]
            ELSE packages[i]]
    ELSE Append(packages, [key |-> k, lines |-> <<line>>])

\* Mutant of Skippable: the test made on the raw line, without strip().
Skippable_NoStrip(line) == line = <<NL>> \/ StartsWith(line, HASH)

\* the skip test of lines 83-85
Skippable(line) == Strip(line) = <<>> \/ StartsWith(Strip(line), HASH)

\* the indentation test of line 89
Indented(line) == StartsWith(line, SP)

\* the loop of lines 82-95; ok = FALSE is the raised ValueError
RECURSIVE ParseLoop(_, _, _)
ParseLoop(lines, packages, current_package) ==
    IF lines = <<>>
    THEN [ok |-> TRUE, packages |-> packages]
    ELSE LET line == Head(lines) IN
         IF current_package = NoPackage /\ Skippable(line)
         THEN ParseLoop(Tail(lines), packages, current_package)
         ELSE IF Indented(line)
              THEN IF current_package = NoPackage
                   THEN [ok |-> FALSE, packages |-> <<>>]
                   ELSE ParseLoop(Tail(lines),
                                  AppendTo(packages, current_package, line),
                                  current_package)
              ELSE ParseLoop(Tail(lines), AppendTo(packages, line, line), line)

parse_requirements(content) == ParseLoop(SplitLines(content), <<>>, NoPackage)

(***************************************************************************)
(* write_requirements                                                      *)
(***************************************************************************)
HeaderLine ==
    <<HASH, SP, "This file was autogenerated via dev/make_requirements.py", NL>>

\* f"-r {parent.relative_to(output_path.parent)}\n": every file lives in
\* the requirements directory, so the relative path is the file name.
IncludeLine(parent) == <<"-r", SP, parent, NL>>

RECURSIVE IncludeLines(_)
IncludeLines(parents) ==
    IF parents = <<>> THEN <<>>
    ELSE IncludeLine(Head(parents)) \o IncludeLines(Tail(parents))

RECURSIVE EntryLines(_)
EntryLines(packages) ==
    IF packages = <<>> THEN <<>>
    ELSE Join(Head(packages).lines) \o EntryLines(Tail(packages))

WriteContent(packages, parents) ==
    HeaderLine \o IncludeLines(parents) \o <<NL>> \o EntryLines(packages)

(***************************************************************************)
(* deduplicate_requirements                                                *)
(***************************************************************************)
BASE_REQUIREMENTS == "base.txt"
PRODUCTION_REQUIREMENTS == "production.txt"
DEVELOPMENT_REQUIREMENTS == "development.txt"
TESTING_REQUIREMENTS == "testing.txt"
ALL_REQUIREMENTS == "all.txt"

RequirementFiles ==
    {BASE_REQUIREMENTS, PRODUCTION_REQUIREMENTS, DEVELOPMENT_REQUIREMENTS,
     TESTING_REQUIREMENTS, ALL_REQUIREMENTS}

\* the comprehension of lines 118-122
ProdUnique(prod_packages, base_packages) ==
    SelectSeq(prod_packages, LAMBDA e : ~HasKey(base_packages, e.key))

\* Mutant of DevUnique: the "if k not in base_packages" filter is missing.
DevUnique_Unfiltered(dev_packages, base_packages) == dev_packages

\* the comprehension of line 126
DevUnique(dev_packages, base_packages) ==
    SelectSeq(dev_packages, LAMBDA e : ~HasKey(base_packages, e.key))

\* Mutant of TestUnique: testing is filtered against base only.
TestUnique_BaseOnly(test_packages, base_packages, dev_packages) ==
    SelectSeq(test_packages, LAMBDA e : ~HasKey(base_packages, e.key))

\* the comprehension of lines 128-132
TestUnique(test_packages, base_packages, dev_packages) ==
    SelectSeq(test_packages,
              LAMBDA e : ~HasKey(base_packages, e.key)
                         /\ ~HasKey(dev_packages, e.key))

\* Mutant of Parents: all.txt lists production before development.
Parents_AllReordered(file) ==
    CASE file = "base.txt" -> <<>>
      [] file = "production.txt" -> <<"base.txt">>
      [] file = "development.txt" -> <<"base.txt">>
      [] file = "testing.txt" -> <<"development.txt">>
      [] file = "all.txt" ->
            <<"production.txt", "development.txt", "testing.txt">>

\* Mutant of Parents: testing.txt includes base.txt instead of
\* development.txt.
Parents_TestingOnBase(file) ==
    CASE file = "base.txt" -> <<>>
      [] file = "production.txt" -> <<"base.txt">>
      [] file = "development.txt" -> <<"base.txt">>
      [] file = "testing.txt" -> <<"base.txt">>
      [] file = "all.txt" ->
            <<"development.txt", "production.txt", "testing.txt">>

\* the parents of the write calls of lines 117, 124, 127, 133 and 134-140
Parents(file) ==
    CASE file = BASE_REQUIREMENTS -> <<>>
      [] file = PRODUCTION_REQUIREMENTS -> <<BASE_REQUIREMENTS>>
      [] file = DEVELOPMENT_REQUIREMENTS -> <<BASE_REQUIREMENTS>>
      [] file = TESTING_REQUIREMENTS -> <<DEVELOPMENT_REQUIREMENTS>>
      [] file = ALL_REQUIREMENTS ->
            <<DEVELOPMENT_REQUIREMENTS, PRODUCTION_REQUIREMENTS,
              TESTING_REQUIREMENTS>>

\* output_path.write_text(content) of write_requirements
write_requirements(fs, output_path, packages) ==
    [fs EXCEPT ![output_path] = WriteContent(packages, Parents(output_path))]

\* The locals of deduplicate_requirements before anything is assigned.
NoLocals ==
    [base_packages |-> <<>>, prod_unique |-> <<>>, dev_packages |-> <<>>,
     dev_unique |-> <<>>, test_unique |-> <<>>]

\* The pass left at a raised ValueError while parsing `file`.
Raised(fs, file, written, locals) ==
    [files |-> fs, failed |-> file, written |-> written, locals |-> locals]

\* Mutant of DedupTesting: all.txt is written before testing.txt is parsed.
DedupTesting_AllFirst(fs, locals) ==
    LET fs5 == write_requirements(fs, ALL_REQUIREMENTS, <<>>)
        t == parse_requirements(fs5[TESTING_REQUIREMENTS])
    IN
    IF ~t.ok
    THEN Raised(fs5, TESTING_REQUIREMENTS,
                <<BASE_REQUIREMENTS, PRODUCTION_REQUIREMENTS,
                  DEVELOPMENT_REQUIREMENTS>>, locals)
    ELSE LET test_unique == TestUnique(t.packages, locals.base_packages,
                                       locals.dev_packages)
             fs4 == write_requirements(fs5, TESTING_REQUIREMENTS, test_unique)
         IN  [files |-> fs4, failed |-> "none",
              written |-> <<BASE_REQUIREMENTS, PRODUCTION_REQUIREMENTS,
                            DEVELOPMENT_REQUIREMENTS, ALL_REQUIREMENTS,
                            TESTING_REQUIREMENTS>>,
              locals |-> [locals EXCEPT !.test_unique = test_unique]]

\* lines 128-140, once development.txt is written
DedupTesting(fs, locals) ==
    LET t == parse_requirements(fs[TESTING_REQUIREMENTS]) IN
    IF ~t.ok
    THEN Raised(fs, TESTING_REQUIREMENTS,
                <<BASE_REQUIREMENTS, PRODUCTION_REQUIREMENTS,
                  DEVELOPMENT_REQUIREMENTS>>, locals)
    ELSE LET test_unique == TestUnique(t.packages, locals.base_packages,
                                       locals.dev_packages)
             fs4 == write_requirements(fs, TESTING_REQUIREMENTS, test_unique)
             fs5 == write_requirements(fs4, ALL_REQUIREMENTS, <<>>)
         IN  [files |-> fs5, failed |-> "none",
              written |-> <<BASE_REQUIREMENTS, PRODUCTION_REQUIREMENTS,
                            DEVELOPMENT_REQUIREMENTS, TESTING_REQUIREMENTS,
                            ALL_REQUIREMENTS>>,
              locals |-> [locals EXCEPT !.test_unique = test_unique]]

\* lines 125-127, once production.txt is written
DedupDevelopment(fs, locals) ==
    LET d == parse_requirements(fs[DEVELOPMENT_REQUIREMENTS]) IN
    IF ~d.ok
    THEN Raised(fs, DEVELOPMENT_REQUIREMENTS,
                <<BASE_REQUIREMENTS, PRODUCTION_REQUIREMENTS>>, locals)
    ELSE LET dev_unique == DevUnique(d.packages, locals.base_packages)
             fs3 == write_requirements(fs, DEVELOPMENT_REQUIREMENTS, dev_unique)
         IN  DedupTesting(fs3, [locals EXCEPT !.dev_packages = d.packages,
                                              !.dev_unique = dev_unique])

\* lines 118-124, once base.txt is written
DedupProduction(fs, locals) ==
    LET p == parse_requirements(fs[PRODUCTION_REQUIREMENTS]) IN
    IF ~p.ok
    THEN Raised(fs, PRODUCTION_REQUIREMENTS, <<BASE_REQUIREMENTS>>, locals)
    ELSE LET prod_unique == ProdUnique(p.packages, locals.base_packages)
             fs2 == write_requirements(fs, PRODUCTION_REQUIREMENTS, prod_unique)
         IN  DedupDevelopment(fs2, [locals EXCEPT !.prod_unique = prod_unique])

\* lines 116-140: the whole pass over the files fs
deduplicate_requirements(fs) ==
    LET b == parse_requirements(fs[BASE_REQUIREMENTS]) IN
    IF ~b.ok
    THEN Raised(fs, BASE_REQUIREMENTS, <<>>, NoLocals)
    ELSE LET fs1 == write_requirements(fs, BASE_REQUIREMENTS, b.packages)
         IN  DedupProduction(fs1, [NoLocals EXCEPT !.base_packages = b.packages])

(***************************************************************************)
(* run_uv_commands and main                                                *)
(***************************************************************************)
NoOutput == "uv.lock"

\* the command table of lines 18-67: what each command is and the file it
\* writes with -o
commands ==
    << [name |-> "lock", out |-> NoOutput],
       [name |-> "base", out |-> BASE_REQUIREMENTS],
       [name |-> "production-extra", out |-> PRODUCTION_REQUIREMENTS],
       [name |-> "development-extra", out |-> DEVELOPMENT_REQUIREMENTS],
       [name |-> "testing-extra", out |-> TESTING_REQUIREMENTS],
       [name |-> "all-extras", out |-> ALL_REQUIREMENTS] >>

\* Mutant of RunRaises: subprocess.run without check=True never raises.
RunRaises_Unchecked(status) == FALSE

\* subprocess.run(cmd, check=True) raises CalledProcessError on a non-zero
\* exit status
RunRaises(status) == status # 0

ExitStatuses == {0, 1}

\* Lines the resolver writes: two pinned packages and an indented
\* continuation line.
Foo == <<"foo==1.0", NL>>
Bar == <<"bar==2.0", NL>>
HashLine == <<SP, "--hash=sha256:0", NL>>

ResolverLines == {Foo, Bar, HashLine}

RECURSIVE SeqsUpTo(_, _)
SeqsUpTo(S, n) ==
    IF n = 0 THEN {<<>>}
    ELSE LET prev == SeqsUpTo(S, n - 1)
         IN  prev \cup {Append(s, x) : s \in prev, x \in S}

Contents(S, n) == {Join(ls) : ls \in SeqsUpTo(S, n)}

\* What a successful command may leave in its output file.  all.txt is
\* never read, two contents stand for it.
ResolverOutputs(file) ==
    CASE file = NoOutput -> {<<>>}
      [] file = BASE_REQUIREMENTS -> Contents(ResolverLines, MaxBaseLines)
      [] file = PRODUCTION_REQUIREMENTS ->
            Contents(ResolverLines, MaxProductionLines)
      [] file = DEVELOPMENT_REQUIREMENTS ->
            Contents(ResolverLines, MaxDevelopmentLines)
      [] file = TESTING_REQUIREMENTS ->
            Contents(ResolverLines, MaxTestingLines)
      [] file = ALL_REQUIREMENTS -> {<<>>, Foo \o HashLine \o Bar}

VARIABLES
    pc,       \* where main is: "uv", "dedup", "done", "uv_failed", "dedup_failed"
    cmd,      \* index in commands of the next command to start
    ran,      \* the commands started so far, with their exit status
    files,    \* content of the five requirement files on disk
    before,   \* the files as they were when the latest pass started
    res,      \* outcome and locals of the latest pass of the deduplicator
    runs,     \* number of passes of deduplicate_requirements so far
    printed,  \* the completion message was printed
    src,      \* parser specification: the content handed to the parser
    parsed,   \* parser specification: result of parsing src
    out,      \* parser specification: content written from parsed
    reparsed, \* parser specification: result of parsing out
    stage     \* parser specification: "parse", "write", "reparse", "end"

mainVars == <<pc, cmd, ran, files, before, res, runs, printed>>
parseVars == <<src, parsed, out, reparsed, stage>>
vars == <<pc, cmd, ran, files, before, res, runs, printed,
          src, parsed, out, reparsed, stage>>

NoResult == [failed |-> "none", written |-> <<>>, locals |-> NoLocals]

NoParse == [ok |-> TRUE, packages |-> <<>>]

MainInit ==
    /\ pc = "uv"
    /\ cmd = 1
    /\ ran = <<>>
    /\ files = [f \in RequirementFiles |-> <<>>]
    /\ before = [f \in RequirementFiles |-> <<>>]
    /\ res = NoResult
    /\ runs = 0
    /\ printed = FALSE

ParseIdle ==
    /\ src = <<>>
    /\ parsed = NoParse
    /\ out = <<>>
    /\ reparsed = NoParse
    /\ stage = "idle"

Init == MainInit /\ ParseIdle

\* one iteration of the loop of lines 69-70
RunUvCommand ==
    /\ pc = "uv"
    /\ \E status \in ExitStatuses :
         /\ ran' = Append(ran, [name |-> commands[cmd].name, status |-> status])
         /\ IF RunRaises(status)
            THEN /\ pc' = "uv_failed"
                 /\ UNCHANGED <<cmd, files>>
            ELSE /\ \E content \in ResolverOutputs(commands[cmd].out) :
                      files' = IF commands[cmd].out = NoOutput
                               THEN files
                               ELSE [files EXCEPT ![commands[cmd].out] = content]
                 /\ cmd' = cmd + 1
                 /\ pc' = IF cmd = Len(commands) THEN "dedup" ELSE "uv"
    /\ UNCHANGED <<before, res, runs, printed>>
    /\ UNCHANGED parseVars

\* lines 146-147 of main: the pass, then the completion message
MainDeduplicate ==
    /\ pc = "dedup"
    /\ LET r == deduplicate_requirements(files) IN
         /\ before' = files
         /\ files' = r.files
         /\ res' = [failed |-> r.failed, written |-> r.written,
                    locals |-> r.locals]
         /\ pc' = IF r.failed = "none" THEN "done" ELSE "dedup_failed"
         /\ printed' = (r.failed = "none")
    /\ runs' = runs + 1
    /\ UNCHANGED <<cmd, ran>>
    /\ UNCHANGED parseVars

Next == RunUvCommand \/ MainDeduplicate

Spec == Init /\ [][Next]_vars

(***************************************************************************)
(* deduplicate_requirements called again on the files an earlier pass left, *)
(* without the resolver in between.                                        *)
(***************************************************************************)
DeduplicateAgain ==
    /\ pc = "done"
    /\ runs < MaxRuns
    /\ LET r == deduplicate_requirements(files) IN
         /\ before' = files
         /\ files' = r.files
         /\ res' = [failed |-> r.failed, written |-> r.written,
                    locals |-> r.locals]
         /\ pc' = IF r.failed = "none" THEN "done" ELSE "dedup_failed"
    /\ runs' = runs + 1
    /\ UNCHANGED <<cmd, ran, printed>>
    /\ UNCHANGED parseVars

NextAgain == RunUvCommand \/ MainDeduplicate \/ DeduplicateAgain

SpecAgain == Init /\ [][NextAgain]_vars

(***************************************************************************)
(* The parser and step 1 of the pass on one file: parse_requirements, then *)
(* write_requirements with no parents, then parse_requirements of what was *)
(* written.                                                                *)
(***************************************************************************)
BlankLine == <<NL>>
CommentLine == <<HASH, "via", NL>>
IndentedComment == <<SP, HASH, "via", NL>>
SpaceOnlyLine == <<SP, NL>>
TabLine == <<TAB, "baz==3.0", NL>>

ParserLines ==
    {Foo, Bar, HashLine, BlankLine, CommentLine, IndentedComment,
     SpaceOnlyLine, TabLine}

\* the same content with the newline of its last line missing
Unterminated(content) ==
    IF content # <<>> /\ content[Len(content)] = NL
    THEN SubSeq(content, 1, Len(content) - 1)
    ELSE content

ParserInputs ==
    LET terminated == Contents(ParserLines, MaxParseLines)
    IN  terminated \cup {Unterminated(c) : c \in terminated}

InitParse ==
    /\ MainInit
    /\ src \in ParserInputs
    /\ parsed = NoParse
    /\ out = <<>>
    /\ reparsed = NoParse
    /\ stage = "parse"

\* line 116: base_packages = parse_requirements(BASE_REQUIREMENTS)
ParseSource ==
    /\ stage = "parse"
    /\ parsed' = parse_requirements(src)
    /\ stage' = IF parsed'.ok THEN "write" ELSE "raised"
    /\ UNCHANGED <<src, out, reparsed>>
    /\ UNCHANGED mainVars

\* line 117: write_requirements(BASE_REQUIREMENTS, base_packages)
WriteParsed ==
    /\ stage = "write"
    /\ out' = WriteContent(parsed.packages, Parents(BASE_REQUIREMENTS))
    /\ stage' = "reparse"
    /\ UNCHANGED <<src, parsed, reparsed>>
    /\ UNCHANGED mainVars

\* line 116 of a later pass: parse_requirements of the rewritten file
ParseWritten ==
    /\ stage = "reparse"
    /\ reparsed' = parse_requirements(out)
    /\ stage' = "end"
    /\ UNCHANGED <<src, parsed, out>>
    /\ UNCHANGED mainVars

NextParse == ParseSource \/ WriteParsed \/ ParseWritten

SpecParse == InitParse /\ [][NextParse]_vars

(***************************************************************************)
(* Vocabulary of the properties.                                           *)
(***************************************************************************)
LinesOf(content) ==
    LET L == SplitLines(content) IN {L[i] : i \in DOMAIN L}

\* the mapping parsed from a file as the latest pass found it
SourceOf(file) == parse_requirements(before[file]).packages

\* the entry set the latest pass handed to write_requirements for a file
EntrySet(file) ==
    CASE file = BASE_REQUIREMENTS -> res.locals.base_packages
      [] file = PRODUCTION_REQUIREMENTS -> res.locals.prod_unique
      [] file = DEVELOPMENT_REQUIREMENTS -> res.locals.dev_unique
      [] file = TESTING_REQUIREMENTS -> res.locals.test_unique
      [] file = ALL_REQUIREMENTS -> <<>>

\* the files named by the "-r <file>" lines of a content
IncludesOf(content) ==
    {l[3] : l \in {m \in LinesOf(content) : Len(m) = 4 /\ m[1] = "-r"}}

\* the files reached from a file by following include lines
Reach(file) ==
    LET one == IncludesOf(files[file])
        two == UNION {IncludesOf(files[g]) : g \in one}
        three == UNION {IncludesOf(files[g]) : g \in two}
    IN  {file} \cup one \cup two \cup three

\* what follows the first blank line of a written file
RECURSIVE AfterBlank(_)
AfterBlank(lines) ==
    IF lines = <<>> THEN <<>>
    ELSE IF Head(lines) = <<NL>> THEN Join(Tail(lines))
    ELSE AfterBlank(Tail(lines))

EntriesPart(content) == AfterBlank(SplitLines(content))

IsInfix(text, content) ==
    \E i \in 0..(Len(content) - Len(text)) :
        SubSeq(content, i + 1, i + Len(text)) = text

DerivedFiles ==
    {PRODUCTION_REQUIREMENTS, DEVELOPMENT_REQUIREMENTS, TESTING_REQUIREMENTS}

StepOrder ==
    <<"base.txt", "production.txt", "development.txt", "testing.txt", "all.txt">>

CommandOrder ==
    <<"lock", "base", "production-extra", "development-extra",
      "testing-extra", "all-extras">>

(***************************************************************************)
(* Properties of the main pipeline.                                        *)
(***************************************************************************)

\* C1: a second pass of deduplicate_requirements over the files the first
\* pass left on disk leaves all five files byte-identical.
C1_SecondPassIdentical == runs >= 2 => files = before

\* C2: when the pass completes, no identifier line parsed from base.txt is
\* a key of the entries written to production.txt, development.txt or
\* testing.txt, nor a line of their entry part on disk; production and
\* development include base, testing includes development.
C2_BaseNotRepeated ==
    pc = "done" =>
        /\ \A k \in Keys(SourceOf(BASE_REQUIREMENTS)) :
             \A f \in DerivedFiles :
                /\ ~HasKey(EntrySet(f), k)
                /\ k \notin LinesOf(EntriesPart(files[f]))
        /\ IncludesOf(files[PRODUCTION_REQUIREMENTS]) = {"base.txt"}
        /\ IncludesOf(files[DEVELOPMENT_REQUIREMENTS]) = {"base.txt"}
        /\ IncludesOf(files[TESTING_REQUIREMENTS]) = {"development.txt"}
        /\ "base.txt" \in Reach(TESTING_REQUIREMENTS)

C2_Witness ==
    /\ pc = "done"
    /\ \E k \in Keys(SourceOf(BASE_REQUIREMENTS)) :
          \A f \in DerivedFiles : HasKey(SourceOf(f), k)

\* C3: an identifier line parsed from development.txt and not from base.txt
\* has its block written to development.txt as parsed, and is no entry of
\* testing.txt, also when the testing source holds it.
C3_DevelopmentOnly ==
    pc = "done" =>
        \A k \in Keys(SourceOf(DEVELOPMENT_REQUIREMENTS))
                 \ Keys(SourceOf(BASE_REQUIREMENTS)) :
            /\ HasKey(EntrySet(DEVELOPMENT_REQUIREMENTS), k)
            /\ Block(EntrySet(DEVELOPMENT_REQUIREMENTS), k)
                 = Block(SourceOf(DEVELOPMENT_REQUIREMENTS), k)
            /\ IsInfix(Join(Block(SourceOf(DEVELOPMENT_REQUIREMENTS), k)),
                       EntriesPart(files[DEVELOPMENT_REQUIREMENTS]))
            /\ ~HasKey(EntrySet(TESTING_REQUIREMENTS), k)
            /\ k \notin LinesOf(EntriesPart(files[TESTING_REQUIREMENTS]))

C3_Witness ==
    /\ pc = "done"
    /\ \E k \in Keys(SourceOf(DEVELOPMENT_REQUIREMENTS))
                \ Keys(SourceOf(BASE_REQUIREMENTS)) :
          /\ HasKey(SourceOf(TESTING_REQUIREMENTS), k)
          /\ Len(Block(SourceOf(DEVELOPMENT_REQUIREMENTS), k)) > 1

\* C4: whenever the pass writes all.txt, the file is the header line, the
\* include lines of development, production and testing in that order, one
\* blank line and nothing else, whatever the five files held.
C4_AllIsAggregator ==
    (pc = "done" \/ \E i \in DOMAIN res.written : res.written[i] = "all.txt")
    => files[ALL_REQUIREMENTS]
         = << "#", " ",
              "This file was autogenerated via dev/make_requirements.py", "\n",
              "-r", " ", "development.txt", "\n",
              "-r", " ", "production.txt", "\n",
              "-r", " ", "testing.txt", "\n",
              "\n" >>

C4_Witness ==
    /\ pc = "done"
    /\ before[ALL_REQUIREMENTS] # <<>>
    /\ \A f \in DerivedFiles : EntrySet(f) # <<>>

\* C5: the commands start in the fixed order, each after the previous one
\* exited with status zero; after a non-zero exit nothing else runs, the
\* deduplicator never starts and nothing is printed; the deduplicator
\* starts only after all six commands succeeded.
C5_FailFastOrder ==
    /\ Len(ran) <= 6
    /\ \A i \in DOMAIN ran : ran[i].name = CommandOrder[i]
    /\ \A i \in DOMAIN ran : i < Len(ran) => ran[i].status = 0
    /\ (\E i \in DOMAIN ran : ran[i].status # 0) =>
          /\ pc = "uv_failed"
          /\ runs = 0
          /\ res.written = <<>>
          /\ ~printed
    /\ (runs > 0 \/ pc \in {"dedup", "done", "dedup_failed"}) =>
          /\ Len(ran) = 6
          /\ \A i \in DOMAIN ran : ran[i].status = 0
    /\ printed => pc = "done"

C5_Witness ==
    /\ pc = "uv_failed"
    /\ Len(ran) = 4
    /\ files[PRODUCTION_REQUIREMENTS] # <<>>

\* the file of a step was rewritten by the pass
Rewritten(file) ==
    /\ files[file] # before[file]
    /\ LinesOf(files[file]) # {}
    /\ Head(SplitLines(files[file])) = HeaderLine
    /\ EntriesPart(files[file]) = EntryLines(EntrySet(file))

\* C6: when parsing the file of step k fails, the files of step k and of
\* every later step, all.txt included, keep the content the resolver
\* wrote, and the files of the earlier steps are rewritten.
C6_AbortKeepsLaterFiles ==
    res.failed # "none" =>
        \E k \in 1..4 :
            /\ StepOrder[k] = res.failed
            /\ ~parse_requirements(before[StepOrder[k]]).ok
            /\ \A j \in 1..5 :
                 IF j >= k
                 THEN files[StepOrder[j]] = before[StepOrder[j]]
                 ELSE /\ Rewritten(StepOrder[j])
                      /\ parse_requirements(before[StepOrder[j]]).ok

C6_Witness ==
    /\ res.failed = TESTING_REQUIREMENTS
    /\ before[ALL_REQUIREMENTS] # <<>>
    /\ EntrySet(DEVELOPMENT_REQUIREMENTS) # <<>>

\* C10: when the pass completes, every identifier line parsed from the
\* production, development or testing source is a key of the entries
\* written to that file or to a file reached from it by include lines.
C10_NoPackageLost ==
    pc = "done" =>
        \A f \in DerivedFiles :
            \A k \in Keys(SourceOf(f)) :
                \E g \in Reach(f) : HasKey(EntrySet(g), k)

C10_Witness ==
    /\ pc = "done"
    /\ \E k \in Keys(SourceOf(TESTING_REQUIREMENTS)) :
          /\ ~HasKey(EntrySet(TESTING_REQUIREMENTS), k)
          /\ HasKey(EntrySet(DEVELOPMENT_REQUIREMENTS), k)
    /\ \E k \in Keys(SourceOf(PRODUCTION_REQUIREMENTS)) :
          HasKey(EntrySet(BASE_REQUIREMENTS), k)

(***************************************************************************)
(* Properties of the parser and of step 1.                                 *)
(***************************************************************************)
SrcLines == SplitLines(src)

Parsing == stage \in {"write", "raised", "reparse", "end"}

Accepted == stage \in {"write", "reparse", "end"}

LeadingWhitespace(line) == line # <<>> /\ line[1] \in {" ", "\t"}

WhitespaceOnly(line) == \A i \in DOMAIN line : IsSpace(line[i])

\* a non-indented, non-blank, non-comment line
IdentifierLine(line) ==
    /\ line # <<>>
    /\ ~LeadingWhitespace(line)
    /\ ~WhitespaceOnly(line)
    /\ line[1] # "#"

\* a line with leading whitespace that is not blank comes before every
\* identifier line
WhitespaceBeforeIdentifier(L) ==
    \E i \in DOMAIN L :
        /\ LeadingWhitespace(L[i])
        /\ ~WhitespaceOnly(L[i])
        /\ \A j \in 1..(i - 1) : ~IdentifierLine(L[j])

\* '#' is the first character that is not whitespace
HashFirst(line) ==
    \E i \in DOMAIN line :
        line[i] = "#" /\ \A j \in 1..(i - 1) : IsSpace(line[j])

Dropped(line) == WhitespaceOnly(line) \/ HashFirst(line)

BeginsWithSpace(line) == line # <<>> /\ line[1] = " "

\* index of the first line that is not dropped, Len(L) + 1 when there is none
FirstKept(L) ==
    IF \E i \in DOMAIN L : ~Dropped(L[i])
    THEN CHOOSE i \in DOMAIN L :
            ~Dropped(L[i]) /\ \A j \in 1..(i - 1) : Dropped(L[j])
    ELSE Len(L) + 1

\* C7 as stated: the parser fails exactly on the files where a line with
\* leading whitespace (blank lines apart) comes before any identifier line.
C7_FailsOnAnyLeadingWhitespace ==
    Parsing => (~parsed.ok <=> WhitespaceBeforeIdentifier(SrcLines))

\* C7 amended: the parser fails exactly on the files whose first line that
\* is neither whitespace-only nor a comment (first non-whitespace character
\* '#') begins with a space character.
C7_FailsOnFirstKeptLineIndented ==
    Parsing =>
        /\ ~parsed.ok <=>
              /\ FirstKept(SrcLines) <= Len(SrcLines)
              /\ BeginsWithSpace(SrcLines[FirstKept(SrcLines)])
        /\ ~parsed.ok <=> stage = "raised"

C7_Witness ==
    /\ stage = "raised"
    /\ Len(SrcLines) >= 3
    /\ SrcLines[1] = IndentedComment
    /\ SrcLines[2] = SpaceOnlyLine
    /\ SrcLines[3] = HashLine

\* last line of the run of lines with leading whitespace that follows line i
ContinuationEnd(L, i) ==
    CHOOSE j \in i..Len(L) :
        /\ \A m \in (i + 1)..j : LeadingWhitespace(L[m])
        /\ (j = Len(L) \/ ~LeadingWhitespace(L[j + 1]))

\* C9 as stated: every key is a non-indented, non-blank, non-comment line,
\* its block is that line followed by the indented lines directly after
\* it, and the keys are the identifier lines in the order read.
C9_KeysAreIdentifierLines ==
    Accepted =>
        LET L == SrcLines
            P == parsed.packages
        IN  /\ \A n \in DOMAIN P :
                 /\ IdentifierLine(P[n].key)
                 /\ \E i \in DOMAIN L :
                       /\ L[i] = P[n].key
                       /\ P[n].lines = SubSeq(L, i, ContinuationEnd(L, i))
            /\ KeySeq(P) = SelectSeq(L, IdentifierLine)

\* last line of the run of lines beginning with a space that follows line i
SpaceRunEnd(L, i) ==
    CHOOSE j \in i..Len(L) :
        /\ \A m \in (i + 1)..j : BeginsWithSpace(L[m])
        /\ (j = Len(L) \/ ~BeginsWithSpace(L[j + 1]))

\* line i opens a block: it is not before the first kept line and does not
\* begin with a space
OpensBlock(L, i) == i >= FirstKept(L) /\ ~BeginsWithSpace(L[i])

\* every occurrence of line k that opens a block, each with the lines
\* beginning with a space directly after it, in file order
RECURSIVE OccurrenceBlocks(_, _, _)
OccurrenceBlocks(L, k, i) ==
    IF i > Len(L) THEN <<>>
    ELSE (IF OpensBlock(L, i) /\ L[i] = k
          THEN SubSeq(L, i, SpaceRunEnd(L, i))
          ELSE <<>>) \o OccurrenceBlocks(L, k, i + 1)

\* the lines that open a block, each once, in order of first occurrence
RECURSIVE FirstOccurrences(_, _, _)
FirstOccurrences(L, i, acc) ==
    IF i > Len(L) THEN acc
    ELSE FirstOccurrences(L, i + 1,
            IF OpensBlock(L, i) /\ \A n \in DOMAIN acc : acc[n] # L[i]
            THEN Append(acc, L[i])
            ELSE acc)

\* C9 amended: the keys are the lines that do not begin with a space, from
\* the first kept line on (blank, comment and tab-indented lines included),
\* each once, in order of first occurrence; the block of a key is every
\* occurrence of that line, each followed by the lines beginning with a
\* space directly after it, in file order.
C9_KeysAreUnindentedLines ==
    Accepted =>
        LET L == SrcLines
            P == parsed.packages
        IN  /\ KeySeq(P) = FirstOccurrences(L, 1, <<>>)
            /\ \A n \in DOMAIN P :
                 P[n].lines = OccurrenceBlocks(L, P[n].key, 1)

C9_Witness ==
    /\ Accepted
    /\ \E n \in DOMAIN parsed.packages :
          parsed.packages[n].key = BlankLine
    /\ \E n \in DOMAIN parsed.packages :
          /\ Len(parsed.packages[n].lines) = 3
          /\ parsed.packages[n].lines[2] = HashLine
          /\ parsed.packages[n].lines[3] = parsed.packages[n].key

\* C8: parsing the rewritten base.txt yields the identifiers and blocks
\* parsed from the original, and the rewritten file is the header, one
\* blank line and those entries.
C8_BasePackagesPreserved ==
    stage = "end" =>
        /\ reparsed.ok
        /\ reparsed.packages = parsed.packages
        /\ out = HeaderLine \o <<NL>> \o EntryLines(parsed.packages)
        /\ (src = Foo =>
              out = << "#", " ",
                       "This file was autogenerated via dev/make_requirements.py",
                       "\n", "\n", "foo==1.0", "\n" >>)

====
